---- MODULE Spec2Model ----
(***************************************************************************)
(* Model of src/main.py: the module-level startup (credential lookup,      *)
(* model handle, app and route creation) and the two request handlers,     *)
(* read_root and caption_image, run as coroutines on one event loop.       *)
(*                                                                         *)
(* Python strings are sequences of one-character strings, so startswith,   *)
(* strip and f-string formatting are computed, not assumed.  An Optional   *)
(* value is None or Str(s).                                                *)
(***************************************************************************)
EXTENDS Naturals, Sequences, FiniteSets

VARIABLES env, GEMINI_API_KEY, model, app, routes, boot, startup_error,
          pc, req, outcome, calls, steps, ext, loop

vars == <<env, GEMINI_API_KEY, model, app, routes, boot, startup_error,
          pc, req, outcome, calls, steps, ext, loop>>

bootVars == <<GEMINI_API_KEY, model, app, routes, boot, startup_error>>
reqVars == <<pc, req, outcome, calls, steps, ext, loop>>

(* ---- bounds ---- *)
NumRequests == 2
MaxLen == 2

Requests == 1..NumRequests

(* ---- Python values ---- *)
None == <<"None">>
Str(s) == <<"str", s>>

RECURSIVE SeqsUpTo(_, _)
SeqsUpTo(S, n) ==
    IF n = 0 THEN {<<>>}
    ELSE LET shorter == SeqsUpTo(S, n - 1)
         IN shorter \cup {Append(s, c) : s \in {t \in shorter : Len(t) = n - 1}, c \in S}

(* str.startswith(prefix) *)
StartsWith(s, prefix) ==
    /\ Len(s) >= Len(prefix)
    /\ SubSeq(s, 1, Len(prefix)) = prefix

(* characters str.strip() removes when called without arguments *)
Whitespace == {" ", "\t", "\n", "\r"}

RECURSIVE LStrip(_)
LStrip(s) ==
    IF s # <<>> /\ Head(s) \in Whitespace THEN LStrip(Tail(s)) ELSE s

RECURSIVE RStrip(_)
RStrip(s) ==
    IF s # <<>> /\ s[Len(s)] \in Whitespace THEN RStrip(SubSeq(s, 1, Len(s) - 1)) ELSE s

Strip(s) == RStrip(LStrip(s))

(* sub in s *)
Contains(s, sub) ==
    \E i \in 0..Len(s) : i + Len(sub) <= Len(s) /\ SubSeq(s, i + 1, i + Len(sub)) = sub

(* ---- literals of main.py ---- *)
IMAGE_PREFIX == <<"i","m","a","g","e","/">>
INVALID_FILE_TYPE == <<"I","n","v","a","l","i","d"," ","f","i","l","e"," ","t","y","p","e","."," ","P","l","e","a","s","e"," ","u","p","l","o","a","d"," ","a","n"," ","i","m","a","g","e",".">>
GEMINI_ERROR_PREFIX == <<"G","e","m","i","n","i"," ","A","P","I"," ","E","r","r","o","r",":"," ">>
UNEXPECTED_ERROR_PREFIX == <<"A","n"," ","u","n","e","x","p","e","c","t","e","d"," ","e","r","r","o","r"," ","o","c","c","u","r","r","e","d",":"," ">>
NO_CAPTION == <<"N","o"," ","c","a","p","t","i","o","n"," ","c","o","u","l","d"," ","b","e"," ","g","e","n","e","r","a","t","e","d"," ","f","o","r"," ","t","h","i","s"," ","i","m","a","g","e",".">>
WELCOME == <<"W","e","l","c","o","m","e"," ","t","o"," ","t","h","e"," ","G","e","m","i","n","i"," ","I","m","a","g","e"," ","C","a","p","t","i","o","n","i","n","g"," ","A","P","I","!"," ","V","i","s","i","t"," ","/","d","o","c","s"," ","f","o","r"," ","m","o","r","e"," ","i","n","f","o",".">>

(* ---- inputs ---- *)
(* values of the GOOGLE_API_KEY environment variable: unset, empty, set *)
EnvValues == {None, Str(<<>>), Str(<<"k">>)}

(* UploadFile.content_type is Optional[str]: a part without a Content-Type *)
(* header has None                                                         *)
ContentTypes ==
    { None,
      Str(<<"i","m","a","g","e","/","p","n","g">>),
      Str(<<"i","m","a","g","e">>),
      Str(<<"t","e","x","t","/","p","l","a","i","n">>) }

Filenames == {None, Str(<<"a",".","p","n","g">>)}

Uploads ==
    [route : {"/caption-image/"}, content_type : ContentTypes,
     filename : Filenames, decodable : BOOLEAN]

RootRequest ==
    [route |-> "/", content_type |-> None, filename |-> None, decodable |-> FALSE]

NoRequest ==
    [route |-> "", content_type |-> None, filename |-> None, decodable |-> FALSE]

(* texts the external model can return *)
TextChars == {" ", "a"}
Texts == SeqsUpTo(TextChars, MaxLen)

(* str(e) of the provider's errors, and of the other exceptions *)
ProviderMsgs == {<<"q">>, <<"n","o">>}
OtherMsgs == {<<"q">>}

Exc(type, msg) == [type |-> type, msg |-> msg]

(* ---- what a handler produces ---- *)
NoOutcome ==
    [kind |-> "pending", status |-> 0, filename |-> None, caption |-> None,
     detail |-> None, message |-> None, exc |-> "none"]

(* return JSONResponse(content={"filename": ..., "caption": ...}) *)
JSONResponse(filename, caption) ==
    [NoOutcome EXCEPT !.kind = "JSONResponse", !.status = 200,
                      !.filename = filename, !.caption = Str(caption)]

(* return {"message": ...} *)
RootResponse ==
    [NoOutcome EXCEPT !.kind = "dict", !.status = 200, !.message = Str(WELCOME)]

(* raise HTTPException(status_code=..., detail=...) *)
HTTPException(status_code, detail) ==
    [NoOutcome EXCEPT !.kind = "HTTPException", !.status = status_code,
                      !.detail = Str(detail)]

(* an exception that leaves the handler without passing an except clause *)
Unhandled(e) ==
    [NoOutcome EXCEPT !.kind = "unhandled", !.exc = e.type]


(* ---- what the collaborators (upload stream, PIL, the external model) did ---- *)
NoExt == [kind |-> "none", at |-> "", exc |-> Exc("", <<>>), text |-> <<>>]
Raised(at, e) == [NoExt EXCEPT !.kind = "raise", !.at = at, !.exc = e]
Returned(text) == [NoExt EXCEPT !.kind = "text", !.at = "generate", !.text = text]

(* ---- caption_image, piece by piece ---- *)

(* `not GEMINI_API_KEY`: None and the empty string are falsy *)
KeyMissing_NoneOnly(key) == key = None

KeyMissing(key) == key = None \/ key = Str(<<>>)

(* the two except clauses of the try statement; f"...{e}" formats str(e) *)
ExceptClauses_NoProviderClause(e) ==
    HTTPException(500, UNEXPECTED_ERROR_PREFIX \o e.msg)

ExceptClauses_Decode400(e) ==
    IF e.type = "APIError"
    THEN HTTPException(500, GEMINI_ERROR_PREFIX \o e.msg)
    ELSE IF e.type = "UnidentifiedImageError"
    THEN HTTPException(400, UNEXPECTED_ERROR_PREFIX \o e.msg)
    ELSE HTTPException(500, UNEXPECTED_ERROR_PREFIX \o e.msg)

ExceptClauses(e) ==
    IF e.type = "APIError"
    THEN HTTPException(500, GEMINI_ERROR_PREFIX \o e.msg)
    ELSE HTTPException(500, UNEXPECTED_ERROR_PREFIX \o e.msg)

(* the raise of the content-type check, which stands before the try *)
RejectUpload_InsideTry == ExceptClauses(Exc("HTTPException", INVALID_FILE_TYPE))

RejectUpload == HTTPException(400, INVALID_FILE_TYPE)

(* caption = response.text.strip(); if not caption: caption = <fallback> *)
Caption_NoStrip(text) == IF text = <<>> THEN NO_CAPTION ELSE text

Caption_NoFallback(text) == Strip(text)

Caption(text) ==
    LET caption == Strip(text)
    IN IF caption = <<>> THEN NO_CAPTION ELSE caption

(* a raise inside the try leaves the handler: nothing is attempted again *)
AfterFailure_Retry == "reading"

AfterFailure == "done"

Idle == 0

(* ---- startup: the module body, top to bottom ---- *)
Init ==
    /\ env \in EnvValues
    /\ GEMINI_API_KEY = None
    /\ model = "unset"
    /\ app = FALSE
    /\ routes = {}
    /\ boot = "load_key"
    /\ startup_error = "none"
    /\ pc = [r \in Requests |-> "idle"]
    /\ req = [r \in Requests |-> NoRequest]
    /\ outcome = [r \in Requests |-> NoOutcome]
    /\ calls = [r \in Requests |-> 0]
    /\ steps = [r \in Requests |-> <<>>]
    /\ ext = [r \in Requests |-> NoExt]
    /\ loop = Idle

LoadKey ==
    /\ boot = "load_key"
    /\ GEMINI_API_KEY' = env
    /\ boot' = "check_key"
    /\ UNCHANGED <<env, model, app, routes, startup_error, reqVars>>

CheckKey ==
    /\ boot = "check_key"
    /\ IF KeyMissing(GEMINI_API_KEY)
       THEN boot' = "failed" /\ startup_error' = "ValueError"
       ELSE boot' = "configure" /\ startup_error' = startup_error
    /\ UNCHANGED <<env, GEMINI_API_KEY, model, app, routes, reqVars>>

(* genai.configure(api_key=...) records the key for later calls *)
Configure ==
    /\ boot = "configure"
    /\ boot' = "build_model"
    /\ UNCHANGED <<env, GEMINI_API_KEY, model, app, routes, startup_error, reqVars>>

BuildModel ==
    /\ boot = "build_model"
    /\ \/ /\ model' = "gemini-2.5-flash-preview-04-17"
          /\ boot' = "create_app"
          /\ startup_error' = startup_error
       \/ /\ model' = model
          /\ boot' = "failed"
          /\ startup_error' = "RuntimeError"
    /\ UNCHANGED <<env, GEMINI_API_KEY, app, routes, reqVars>>

CreateApp ==
    /\ boot = "create_app"
    /\ app' = TRUE
    /\ boot' = "route_root"
    /\ UNCHANGED <<env, GEMINI_API_KEY, model, routes, startup_error, reqVars>>

RegisterRoot ==
    /\ boot = "route_root"
    /\ routes' = routes \cup {"/"}
    /\ boot' = "route_caption"
    /\ UNCHANGED <<env, GEMINI_API_KEY, model, app, startup_error, reqVars>>

RegisterCaption ==
    /\ boot = "route_caption"
    /\ routes' = routes \cup {"/caption-image/"}
    /\ boot' = "serving"
    /\ UNCHANGED <<env, GEMINI_API_KEY, model, app, startup_error, reqVars>>

(* ---- requests ---- *)

(* a client sends a request to a route of the app *)
Arrive(r) ==
    /\ boot = "serving"
    /\ app
    /\ pc[r] = "idle"
    /\ \E u \in Uploads \cup {RootRequest} :
          /\ u.route \in routes
          /\ req' = [req EXCEPT ![r] = u]
    /\ pc' = [pc EXCEPT ![r] = "queued"]
    /\ UNCHANGED <<env, bootVars, outcome, calls, steps, ext, loop>>

(* read_root: no await, runs to its return *)
ReadRoot(r) ==
    /\ pc[r] = "queued"
    /\ req[r].route = "/"
    /\ loop = Idle
    /\ outcome' = [outcome EXCEPT ![r] = RootResponse]
    /\ steps' = [steps EXCEPT ![r] = <<"respond">>]
    /\ pc' = [pc EXCEPT ![r] = "done"]
    /\ UNCHANGED <<env, bootVars, req, calls, ext, loop>>

(* caption_image up to `await file.read()`: the content-type check *)
CheckContentType(r) ==
    /\ pc[r] = "queued"
    /\ req[r].route = "/caption-image/"
    /\ loop = Idle
    /\ LET ct == req[r].content_type
       IN IF ct = None
          THEN (* None has no startswith: AttributeError, raised before the try *)
               LET e == Exc("AttributeError", <<>>)
               IN /\ outcome' = [outcome EXCEPT ![r] = Unhandled(e)]
                  /\ ext' = [ext EXCEPT ![r] = Raised("validate", e)]
                  /\ steps' = [steps EXCEPT ![r] = <<"validate", "error">>]
                  /\ pc' = [pc EXCEPT ![r] = "done"]
          ELSE IF ~StartsWith(ct[2], IMAGE_PREFIX)
          THEN /\ outcome' = [outcome EXCEPT ![r] = RejectUpload]
               /\ steps' = [steps EXCEPT ![r] = <<"validate", "error">>]
               /\ pc' = [pc EXCEPT ![r] = "done"]
               /\ ext' = ext
          ELSE /\ steps' = [steps EXCEPT ![r] = <<"validate">>]
               /\ pc' = [pc EXCEPT ![r] = "reading"]
               /\ UNCHANGED <<outcome, ext>>
    /\ UNCHANGED <<env, bootVars, req, calls, loop>>

(* an exception raised inside the try reaches the except clauses *)
Fail(r, at, e, done_steps) ==
    /\ outcome' = [outcome EXCEPT ![r] = ExceptClauses(e)]
    /\ ext' = [ext EXCEPT ![r] = Raised(at, e)]
    /\ steps' = [steps EXCEPT ![r] = steps[r] \o done_steps \o <<"error">>]
    /\ pc' = [pc EXCEPT ![r] = AfterFailure]

(* file.read() returns; Image.open; contents; model.generate_content is  *)
(* called without await, so the coroutine keeps the event loop's thread  *)
ReadAndInvoke(r) ==
    /\ pc[r] = "reading"
    /\ loop = Idle
    /\ \/ /\ \E m \in OtherMsgs : Fail(r, "read", Exc("OSError", m), <<"decode">>)
          /\ UNCHANGED <<calls, loop>>
       \/ /\ ~req[r].decodable
          /\ \E m \in OtherMsgs :
                Fail(r, "open", Exc("UnidentifiedImageError", m), <<"decode">>)
          /\ UNCHANGED <<calls, loop>>
       \/ /\ req[r].decodable
          /\ calls' = [calls EXCEPT ![r] = calls[r] + 1]
          /\ steps' = [steps EXCEPT ![r] = steps[r] \o <<"decode", "invoke">>]
          /\ pc' = [pc EXCEPT ![r] = "invoking"]
          /\ loop' = r
          /\ UNCHANGED <<outcome, ext>>
    /\ UNCHANGED <<env, bootVars, req>>

(* generate_content returns or raises; response.text; strip; fallback; return *)
GenerateReturns(r) ==
    /\ pc[r] = "invoking"
    /\ loop = r
    /\ \/ \E m \in ProviderMsgs : Fail(r, "generate", Exc("APIError", m), <<>>)
       \/ \E m \in OtherMsgs : Fail(r, "generate", Exc("ConnectionError", m), <<>>)
       \/ \E m \in OtherMsgs : Fail(r, "text", Exc("ValueError", m), <<>>)
       \/ \E t \in Texts :
             /\ outcome' = [outcome EXCEPT ![r] = JSONResponse(req[r].filename, Caption(t))]
             /\ ext' = [ext EXCEPT ![r] = Returned(t)]
             /\ steps' = [steps EXCEPT ![r] = steps[r] \o <<"respond">>]
             /\ pc' = [pc EXCEPT ![r] = "done"]
    /\ loop' = Idle
    /\ UNCHANGED <<env, bootVars, req, calls>>

Next ==
    \/ LoadKey
    \/ CheckKey
    \/ Configure
    \/ BuildModel
    \/ CreateApp
    \/ RegisterRoot
    \/ RegisterCaption
    \/ \E r \in Requests : Arrive(r)
    \/ \E r \in Requests : ReadRoot(r)
    \/ \E r \in Requests : CheckContentType(r)
    \/ \E r \in Requests : ReadAndInvoke(r)
    \/ \E r \in Requests : GenerateReturns(r)

Spec == Init /\ [][Next]_vars

(* the event loop runs every coroutine that is ready; the external call *)
(* is assumed to return or raise                                        *)
LiveSpec ==
    /\ Spec
    /\ \A r \in Requests :
          /\ WF_vars(ReadRoot(r))
          /\ WF_vars(CheckContentType(r))
          /\ WF_vars(ReadAndInvoke(r))
          /\ WF_vars(GenerateReturns(r))

TypeOK ==
    /\ env \in EnvValues
    /\ app \in BOOLEAN
    /\ routes \subseteq {"/", "/caption-image/"}
    /\ loop \in Requests \cup {Idle}
    /\ \A r \in Requests :
          /\ pc[r] \in {"idle", "queued", "reading", "invoking", "done"}
          /\ req[r] \in Uploads \cup {RootRequest, NoRequest}
          /\ calls[r] \in Nat

(* ---- vocabulary of the claims ---- *)
IsCaptionRequest(r) == req[r].route = "/caption-image/"

(* the declared MIME type's top-level category, the part before "/", is image *)
DeclaresImage(ct) ==
    /\ ct # None
    /\ \E i \in 1..Len(ct[2]) :
          /\ ct[2][i] = "/"
          /\ SubSeq(ct[2], 1, i - 1) = <<"i","m","a","g","e">>

DeclaresNonImage(ct) == ct # None /\ ~DeclaresImage(ct)

AllWhitespace(t) == \A k \in 1..Len(t) : t[k] \in Whitespace

(* T is t without its leading and trailing whitespace, and is not empty *)
IsTrimOf(T, t) ==
    \E i, j \in 1..Len(t) :
       /\ i <= j
       /\ T = SubSeq(t, i, j)
       /\ t[i] \notin Whitespace
       /\ t[j] \notin Whitespace
       /\ \A k \in 1..Len(t) : (k < i \/ k > j) => t[k] \in Whitespace

IsErrorBody(o) ==
    /\ o.kind = "HTTPException"
    /\ o.status \in {400, 500}
    /\ o.detail # None

IsFullSuccess(o) ==
    /\ o.kind = "JSONResponse"
    /\ o.status = 200
    /\ o.caption # None
    /\ o.detail = None

IsPrefix(s, t) == Len(s) <= Len(t) /\ SubSeq(t, 1, Len(s)) = s

C2_AllErrorsMapped ==
    \A r \in Requests :
       (IsCaptionRequest(r) /\ pc[r] = "done" /\ ext[r].kind = "raise") =>
          IsErrorBody(outcome[r])

(* ---- C3 ---- *)
(* C3: when the upload passed the check and decoded, and the external     *)
(* call returned a text whose trimmed value T is not empty, the response  *)
(* is 200 with caption T and the upload's filename.                       *)
C3_CaptionIsTrimmedText ==
    \A r \in Requests :
       (pc[r] = "done" /\ ext[r].kind = "text") =>
          \A T \in Texts :
             IsTrimOf(T, ext[r].text) =>
                /\ outcome[r].kind = "JSONResponse"
                /\ outcome[r].status = 200
                /\ outcome[r].caption = Str(T)
                /\ outcome[r].filename = req[r].filename

C3_Witness ==
    \E r \in Requests :
       /\ pc[r] = "done"
       /\ ext[r].kind = "text"
       /\ ext[r].text = <<" ", "a">>
       /\ outcome[r].caption = Str(<<"a">>)
       /\ req[r].filename # None

(* ---- C4 ---- *)
(* C4: when the returned text is empty or only whitespace, the response   *)
(* is 200 with the fallback sentence as caption; no 200 response of       *)
(* caption_image has an empty caption.                                    *)
C4_FallbackCaption ==
    \A r \in Requests :
       /\ (pc[r] = "done" /\ ext[r].kind = "text" /\ AllWhitespace(ext[r].text)) =>
             /\ outcome[r].kind = "JSONResponse"
             /\ outcome[r].status = 200
             /\ outcome[r].caption = Str(NO_CAPTION)
       /\ (outcome[r].kind = "JSONResponse" /\ outcome[r].status = 200) =>
             /\ outcome[r].caption # None
             /\ outcome[r].caption # Str(<<>>)

C4_Witness ==
    \E r \in Requests :
       /\ pc[r] = "done"
       /\ ext[r].kind = "text"
       /\ ext[r].text = <<" ", " ">>
       /\ outcome[r].caption = Str(NO_CAPTION)

(* ---- C5 ---- *)
(* C5: when generate_content raises the provider's APIError, the response *)
(* is 500 and its detail holds the error's message behind the provider    *)
(* marker, not behind the generic unexpected-error marker.                *)
C5_ProviderError ==
    \A r \in Requests :
       (pc[r] = "done" /\ ext[r].kind = "raise" /\ ext[r].exc.type = "APIError") =>
          /\ outcome[r].kind = "HTTPException"
          /\ outcome[r].status = 500
          /\ outcome[r].detail # None
          /\ Contains(outcome[r].detail[2], ext[r].exc.msg)
          /\ StartsWith(outcome[r].detail[2], GEMINI_ERROR_PREFIX)
          /\ ~StartsWith(outcome[r].detail[2], UNEXPECTED_ERROR_PREFIX)

C5_Witness ==
    \E r \in Requests :
       /\ pc[r] = "done"
       /\ ext[r].kind = "raise"
       /\ ext[r].exc = Exc("APIError", <<"n","o">>)
       /\ outcome[r].status = 500
       /\ calls[r] = 1

(* ---- C6 ---- *)
(* C6: an upload declared as an image whose bytes do not decode is        *)
(* answered 500, never 400, with the generic unexpected-error detail, and *)
(* generate_content is not called for it.                                 *)
C6_DecodeFailure ==
    \A r \in Requests :
       (IsCaptionRequest(r) /\ DeclaresImage(req[r].content_type) /\ ~req[r].decodable) =>
          /\ calls[r] = 0
          /\ pc[r] # "invoking"
          /\ pc[r] = "done" =>
                /\ outcome[r].kind = "HTTPException"
                /\ outcome[r].status = 500
                /\ StartsWith(outcome[r].detail[2], UNEXPECTED_ERROR_PREFIX)

C6_Witness ==
    \E r \in Requests :
       /\ IsCaptionRequest(r)
       /\ DeclaresImage(req[r].content_type)
       /\ ~req[r].decodable
       /\ pc[r] = "done"
       /\ ext[r].exc.type = "UnidentifiedImageError"
       /\ outcome[r].status = 500

(* ---- C7 ---- *)
(* C7: while one request is inside the external call, another request     *)
(* that has arrived can be handled: its handler can take its step (for    *)
(* GET / or a rejected upload, that step completes it) before the call    *)
(* returns.                                                               *)
C7_OthersUnaffected ==
    \A r, q \in Requests :
       (r # q /\ pc[r] = "invoking" /\ pc[q] = "queued") =>
          ENABLED (ReadRoot(q) \/ CheckContentType(q))

(* ---- C8 ---- *)
(* a handled caption request has exactly one response, a full success     *)
(* (200 with filename and caption) or a full failure (400 or 500 with a   *)
(* detail), never a mix                                                   *)
C8_OneFullResponse ==
    \A r \in Requests :
       (IsCaptionRequest(r) /\ pc[r] = "done") =>
          /\ IsFullSuccess(outcome[r]) \/ IsErrorBody(outcome[r])
          /\ ~(IsFullSuccess(outcome[r]) /\ IsErrorBody(outcome[r]))

(* every request that arrived is eventually answered, given that the      *)
(* external call returns or raises                                        *)
C8_EventuallyAnswered ==
    \A r \in Requests : (pc[r] = "queued") ~> (outcome[r].kind # "pending")

(* C8: every request that arrived is eventually answered, and  *)
(* the answer of a caption request is one full success or one full        *)
(* failure.                                                               *)
C8_AnsweredOnceInFull == C8_EventuallyAnswered /\ []C8_OneFullResponse

(* ---- C9 ---- *)
(* C9: with GOOGLE_API_KEY unset or empty, or when building the model     *)
(* handle failed, the app and its routes are never created and no         *)
(* request is ever served.                                                *)
C9_StartupFailsClosed ==
    (env = None \/ env = Str(<<>>) \/ startup_error # "none") =>
       /\ ~app
       /\ routes = {}
       /\ boot # "serving"
       /\ \A r \in Requests : pc[r] = "idle" /\ outcome[r] = NoOutcome

C9_Witness ==
    /\ boot = "failed"
    /\ \/ env = Str(<<>>) /\ startup_error = "ValueError"
       \/ env = Str(<<"k">>) /\ startup_error = "RuntimeError"

(* ---- C10 ---- *)
(* C10: the steps of a request are a prefix of validate, decode, invoke,  *)
(* respond, cut short by at most one final error; generate_content is     *)
(* called at most once, only for an upload that passed the check and      *)
(* decoded, and nothing follows an error.                                 *)
C10_LinearNoRetry ==
    \A r \in Requests :
       IsCaptionRequest(r) =>
          LET s == steps[r]
              core == IF s # <<>> /\ s[Len(s)] = "error" THEN SubSeq(s, 1, Len(s) - 1) ELSE s
              invokes == {k \in 1..Len(s) : s[k] = "invoke"}
          IN /\ IsPrefix(core, <<"validate", "decode", "invoke", "respond">>)
             /\ calls[r] <= 1
             /\ calls[r] = Cardinality(invokes)
             /\ calls[r] = 1 =>
                   /\ DeclaresImage(req[r].content_type)
                   /\ req[r].decodable
             /\ (s # <<>> /\ s[Len(s)] = "error") =>
                   /\ pc[r] = "done"
                   /\ outcome[r].kind \in {"HTTPException", "unhandled"}

C10_Witness ==
    \E r \in Requests :
       /\ steps[r] = <<"validate", "decode", "invoke", "error">>
       /\ calls[r] = 1
       /\ pc[r] = "done"

====
